---- MODULE Spec2Model ----
(***************************************************************************)
(* Model of the Chaum-Pedersen gRPC service: the session table of          *)
(* src/src/server.rs, its three request handlers, the arithmetic of        *)
(* src/src/chaum_pedersen/crypto.rs and the client of src/src/client.rs.   *)
(***************************************************************************)
EXTENDS Integers, Sequences, FiniteSets, TLC

(***************************************************************************)
(* Bounds of the model.                                                    *)
(***************************************************************************)
\* Number of request handlers that can be in flight at once.
NumThreads == 1
\* Number of distinct session ids generate_session_id can draw.
NumIds == 2
\* Bit size the model generates primes at; it stands in for bit_size, whose
\* values in the code (256..4096) are beyond explicit enumeration.
PrimeBits == 3
\* Largest byte a caller puts in a request field.
MaxByte == 1

(***************************************************************************)
(* Program constants.                                                      *)
(***************************************************************************)
MinBitSize == 256
MaxBitSize == 4096
MillerRabinRounds == 40
ByteBase == 256

Threads == 1..NumThreads
SessionIds == 1..NumIds
BitSizes == {MinBitSize - 1, MinBitSize, MaxBitSize, MaxBitSize + 1}
\* Byte strings a caller can send: empty or one byte.
InputBytes == {<<>>} \cup {<<b>> : b \in 0..MaxByte}

\* Option<T>: None is the empty sequence, Some(v) is <<v>>.
None == <<>>
Some(v) == <<v>>
IsSome(o) == o # <<>>
Unwrap(o) == o[1]

(***************************************************************************)
(* num-bigint primitives.                                                  *)
(***************************************************************************)
RECURSIVE Pow(_, _)
Pow(b, e) == IF e = 0 THEN 1 ELSE b * Pow(b, e - 1)

RECURSIVE ModPow(_, _, _)
ModPow(b, e, m) ==
    IF e = 0 THEN 1 % m
    ELSE IF e % 2 = 0 THEN LET h == ModPow(b, e \div 2, m) IN (h * h) % m
    ELSE ((b % m) * ModPow(b, e - 1, m)) % m

\* BigUint::to_bytes_be: big-endian digits in base 256, zero is the one byte 0.
RECURSIVE Digits(_)
Digits(n) == IF n = 0 THEN <<>> ELSE Append(Digits(n \div ByteBase), n % ByteBase)
ToBytesBe(n) == IF n = 0 THEN <<0>> ELSE Digits(n)

\* BigUint::from_bytes_be: the empty string and leading zeros read as zero.
RECURSIVE FromBytesBe(_)
FromBytesBe(bytes) ==
    IF bytes = <<>> THEN 0
    ELSE FromBytesBe(SubSeq(bytes, 1, Len(bytes) - 1)) * ByteBase + bytes[Len(bytes)]

\* rng.gen_biguint_range(low, high): uniform in [low, high).
GenBiguintRange(low, high) == low..(high - 1)
\* rng.gen_biguint(bits): uniform in [0, 2^bits).
GenBiguint(bits) == 0..(Pow(2, bits) - 1)

(***************************************************************************)
(* chaum_pedersen/crypto.rs                                                *)
(***************************************************************************)
\* n - 1 = d * 2^r with d odd.
RECURSIVE OddPart(_)
OddPart(d) == IF d % 2 = 0 THEN OddPart(d \div 2) ELSE d
RECURSIVE TwoExp(_)
TwoExp(d) == IF d % 2 = 0 THEN 1 + TwoExp(d \div 2) ELSE 0

\* The inner loop: up to `left` squarings looking for n - 1.
RECURSIVE SquaringFinds(_, _, _)
SquaringFinds(x, left, n) ==
    IF left <= 0 THEN FALSE
    ELSE LET x2 == ModPow(x, 2, n) IN
         IF x2 = n - 1 THEN TRUE ELSE SquaringFinds(x2, left - 1, n)

WitnessPassesNoSquaring(n, a) ==
    LET d == OddPart(n - 1)
        x == ModPow(a, d, n)
    IN  \/ x = 1
        \/ x = n - 1

\* One witness round with witness a: TRUE when the round continues.
WitnessPasses(n, a) ==
    LET d == OddPart(n - 1)
        r == TwoExp(n - 1)
        x == ModPow(a, d, n)
    IN  \/ x = 1
        \/ x = n - 1
        \/ SquaringFinds(x, r - 1, n)

\* The results is_probably_prime(n, rounds) can return over the draws of its
\* witnesses.
IsProbablyPrimeOutcomes(n, rounds) ==
    IF n < 2 THEN {FALSE}
    ELSE IF n = 2 \/ n = 3 THEN {TRUE}
    ELSE IF n % 2 = 0 THEN {FALSE}
    ELSE IF rounds = 0 THEN {TRUE}
    ELSE LET W == GenBiguintRange(2, n - 1) IN
         {b \in BOOLEAN : IF b THEN \E a \in W : WitnessPasses(n, a)
                          ELSE \E a \in W : ~WitnessPasses(n, a)}

\* gen_biguint(bits - 1), made odd.
PrimeCandidates(bits) ==
    {IF c % 2 = 0 THEN c + 1 ELSE c : c \in GenBiguint(bits - 1)}

\* The pairs generate_safe_prime_pair(bits) can return: (p, q) with q = 2p + 1.
generate_safe_prime_pair(bits) ==
    {<<p, 2 * p + 1>> : p \in
        {c \in PrimeCandidates(bits) :
            /\ TRUE \in IsProbablyPrimeOutcomes(c, MillerRabinRounds)
            /\ TRUE \in IsProbablyPrimeOutcomes(2 * c + 1, MillerRabinRounds)}}

\* The values find_generator(p, q) can return.
find_generator(p, q) ==
    {g \in GenBiguintRange(2, q - 1) : ModPow(g, p, q) # 1 /\ ModPow(g, 2, q) # 1}

\* The triples generate_params(bits) can return.
generate_params(bits) ==
    UNION {{[p |-> pq[1], q |-> pq[2], g |-> g] : g \in find_generator(pq[1], pq[2])} :
           pq \in generate_safe_prime_pair(bits)}

\* The fourth argument is the modulus (named q in the code).
generate_commitment(g, a, b, q) ==
    [a1 |-> ModPow(g, a, q),
     b1 |-> ModPow(g, b, q),
     c1 |-> ModPow(g, (a * b) % (q - 1), q)]

\* Stand-in for the SHA-256 digest read as a big-endian integer: a
\* deterministic function of the byte string fed to the hasher.
RECURSIVE Sha256(_)
Sha256(bytes) ==
    IF bytes = <<>> THEN 7
    ELSE (Sha256(SubSeq(bytes, 1, Len(bytes) - 1)) * 31 + bytes[Len(bytes)] + 1) % 65521

generate_challenge(y1, y2, q) == Sha256(ToBytesBe(y1) \o ToBytesBe(y2)) % q

compute_y1y2(x, g, b1, q) == [y1 |-> ModPow(g, x, q), y2 |-> ModPow(b1, x, q)]

compute_z(x, a, s, q) == (x + ((a * s) % (q - 1))) % (q - 1)

verify_proof(g, b1, y1, y2, a1, c1, s, z, q) ==
    LET left1 == ModPow(g, z, q)
        right1 == (ModPow(a1, s, q) * y1) % q
        left2 == ModPow(b1, z, q)
        right2 == (ModPow(c1, s, q) * y2) % q
    IN  left1 = right1 /\ left2 = right2

\* The secrets generate_secrets(q) can draw: each in [1, q - 1).
generate_secrets(q) == GenBiguintRange(1, q - 1) \X GenBiguintRange(1, q - 1)

generate_prover_secret(q) == GenBiguintRange(1, q - 1)

(***************************************************************************)
(* chaum_pedersen/mod.rs                                                   *)
(***************************************************************************)
\* PublicParameters::new(bits): the parameters it can return.  The model
\* generates at PrimeBits whatever bits the caller asked for.
ModelParameters == generate_params(PrimeBits)
PublicParametersNew(bits) == ModelParameters

\* Prover::new(params): the provers it can build.
ProverNew(params) ==
    {[params |-> params, secret_a |-> ab[1], secret_b |-> ab[2]] :
        ab \in generate_secrets(params.q)}

\* Prover::generate_commitment: the modulus passed is params.p.
ProverGenerateCommitment(prover) ==
    generate_commitment(prover.params.g, prover.secret_a, prover.secret_b, prover.params.p)

VerifierNew(params) == [params |-> params]

\* Prover::generate_proof_challenge: the (challenge, x) pairs it can return;
\* x is drawn below params.q - 1, y1 and y2 are reduced modulo params.p.
ProverGenerateProofChallenge(prover, commitment) ==
    {[challenge |-> compute_y1y2(x, prover.params.g, commitment.b1, prover.params.p),
      x |-> x] : x \in generate_prover_secret(prover.params.q)}

\* Prover::generate_response: the modulus passed to compute_z is params.q.
ProverGenerateResponse(prover, x, challenge_hash) ==
    [z |-> compute_z(x, prover.secret_a, challenge_hash, prover.params.q)]

\* Prover::create_proof: the proofs it can return.
ProverCreateProof(prover) ==
    LET commitment == ProverGenerateCommitment(prover) IN
    {LET challenge_hash ==
            generate_challenge(cx.challenge.y1, cx.challenge.y2, prover.params.q)
     IN  [commitment |-> commitment,
          challenge |-> cx.challenge,
          response |-> ProverGenerateResponse(prover, cx.x, challenge_hash),
          challenge_hash |-> challenge_hash] :
        cx \in ProverGenerateProofChallenge(prover, commitment)}

\* Verifier::verify_proof: the challenge is recomputed modulo params.q, the
\* two equations are checked modulo params.p.
VerifierVerifyProof(verifier, proof) ==
    LET expected_challenge ==
            generate_challenge(proof.challenge.y1, proof.challenge.y2, verifier.params.q)
    IN  IF expected_challenge # proof.challenge_hash
        THEN FALSE
        ELSE verify_proof(verifier.params.g,
                          proof.commitment.b1,
                          proof.challenge.y1,
                          proof.challenge.y2,
                          proof.commitment.a1,
                          proof.commitment.c1,
                          proof.challenge_hash,
                          proof.response.z,
                          verifier.params.p)

(***************************************************************************)
(* server.rs: state                                                        *)
(***************************************************************************)
VARIABLES
    sessions,   \* the HashMap<String, Session> behind the mutex
    first_key,  \* the key the map's iteration order puts first, None if empty
    pc,         \* per handler: where it stands between its lock sections
    local,      \* per handler: the request it serves and its local variables
    resp,       \* the response the last step returned to its caller, if any
    client,     \* the state of the client of client.rs
    lock,       \* the handler holding the mutex around the map, None if free
    judged,     \* history: the sessions SubmitResponse has given a verdict on
    calc        \* the call of a library function under study and its result

vars == <<sessions, first_key, pc, local, resp, client, lock, judged, calc>>

NoLocal == [kind |-> "none"]
NoResp == [op |-> "none"]
NoClient == [pc |-> "off"]
NoCalc == [fn |-> "none"]

\* The Session the handler builds at server.rs:71-78.
NewSession(params, commitment) ==
    [params |-> params,
     commitment |-> commitment,
     verifier |-> VerifierNew(params),
     y1 |-> None,
     y2 |-> None,
     challenge |-> None]

\* HashMap::insert: adds the key or replaces its value.
Insert(map, k, v) == [x \in DOMAIN map \cup {k} |-> IF x = k THEN v ELSE map[x]]

ValidBitSizeOffByOne(bit_size) == ~(bit_size <= MinBitSize \/ bit_size > MaxBitSize)

\* The range check of server.rs:59.
ValidBitSize(bit_size) == ~(bit_size < MinBitSize \/ bit_size > MaxBitSize)

\* The keys that can come first in the iteration order after insert(k, ..):
\* the hasher's random state places a new key anywhere and a growing table
\* rehashes its keys; replacing the value of a present key moves nothing.
FirstAfterInsert(map, first, k) ==
    IF k \in DOMAIN map THEN {first} ELSE {Some(x) : x \in DOMAIN map \cup {k}}

\* sessions.keys().next(): the first key in the map's iteration order, None
\* on an empty map.
KeysNext == first_key

ServerInit ==
    /\ sessions = <<>>
    /\ first_key = None
    /\ pc = [t \in Threads |-> "idle"]
    /\ local = [t \in Threads |-> NoLocal]
    /\ resp = NoResp
    /\ lock = None
    /\ judged = {}
    /\ calc = NoCalc

(***************************************************************************)
(* server.rs: initialize_protocol                                          *)
(***************************************************************************)
\* Lines 56-78: the range check, then the parameters, the server's own prover
\* and commitment and the session id, all built before the lock is taken.
InitializeProtocol(t, req) ==
    /\ pc[t] = "idle"
    /\ IF ~ValidBitSize(req.bit_size)
       THEN /\ resp' = [op |-> "InitializeProtocol",
                        code |-> "invalid_argument",
                        message |-> "Bit size must be between 256 and 4096"]
            /\ UNCHANGED <<sessions, first_key, pc, local>>
       ELSE /\ pc' = [pc EXCEPT ![t] = "ip_insert"]
            /\ resp' = NoResp
            /\ UNCHANGED <<sessions, first_key>>
            /\ \E params \in PublicParametersNew(req.bit_size) :
               \E commitment \in {ProverGenerateCommitment(prover) : prover \in ProverNew(params)} :
               \E session_id \in SessionIds :
                    local' = [local EXCEPT ![t] =
                        [kind |-> "initialize_protocol",
                         params |-> params,
                         commitment |-> commitment,
                         session_id |-> session_id,
                         session |-> NewSession(params, commitment)]]

\* Lines 56-78 again, with every local variable of the handler that is alive
\* at line 80 kept in local: the prover built at line 65 stays in scope, and
\* with it secret_a and secret_b, until the handler returns.
InitializeProtocolLocals(t, req) ==
    /\ pc[t] = "idle"
    /\ IF ~ValidBitSize(req.bit_size)
       THEN /\ resp' = [op |-> "InitializeProtocol",
                        code |-> "invalid_argument",
                        message |-> "Bit size must be between 256 and 4096"]
            /\ UNCHANGED <<sessions, first_key, pc, local>>
       ELSE /\ pc' = [pc EXCEPT ![t] = "ip_insert"]
            /\ resp' = NoResp
            /\ UNCHANGED <<sessions, first_key>>
            /\ \E params \in PublicParametersNew(req.bit_size) :
               \E prover \in ProverNew(params) :
               \E session_id \in SessionIds :
                    LET commitment == ProverGenerateCommitment(prover) IN
                    local' = [local EXCEPT ![t] =
                        [kind |-> "initialize_protocol",
                         params |-> params,
                         prover |-> prover,
                         commitment |-> commitment,
                         session_id |-> session_id,
                         session |-> NewSession(params, commitment)]]

\* Lines 80-103: the insertion under the lock and the response.
InitializeProtocolInsert(t) ==
    /\ pc[t] = "ip_insert"
    /\ sessions' = Insert(sessions, local[t].session_id, local[t].session)
    /\ first_key' \in FirstAfterInsert(sessions, first_key, local[t].session_id)
    /\ resp' = [op |-> "InitializeProtocol",
                code |-> "ok",
                params |-> [p |-> ToBytesBe(local[t].params.p),
                            q |-> ToBytesBe(local[t].params.q),
                            g |-> ToBytesBe(local[t].params.g)],
                commitment |-> [a1 |-> ToBytesBe(local[t].commitment.a1),
                                b1 |-> ToBytesBe(local[t].commitment.b1),
                                c1 |-> ToBytesBe(local[t].commitment.c1)]]
    /\ pc' = [pc EXCEPT ![t] = "idle"]
    /\ local' = [local EXCEPT ![t] = NoLocal]

(***************************************************************************)
(* server.rs: send_proof_challenge                                         *)
(***************************************************************************)
NotFound(op) == [op |-> op, code |-> "not_found", message |-> "Session not found"]

\* Lines 110-120: parse y1 and y2, then take the lock to read the first key.
\* req.session_id is never read; the handler keeps req to its end.
SendProofChallenge(t, req) ==
    /\ pc[t] = "idle"
    /\ LET key == KeysNext IN
        IF IsSome(key)
        THEN /\ local' = [local EXCEPT ![t] =
                    [kind |-> "send_proof_challenge",
                     req |-> [session_id |-> req.session_id],
                     y1 |-> FromBytesBe(req.y1),
                     y2 |-> FromBytesBe(req.y2),
                     session_id |-> Unwrap(key)]]
             /\ pc' = [pc EXCEPT ![t] = "spc_get"]
             /\ resp' = NoResp
             /\ UNCHANGED <<sessions, first_key>>
        ELSE /\ resp' = NotFound("SubmitCommitment")
             /\ UNCHANGED <<sessions, first_key, pc, local>>

\* Lines 123-142: the second lock section.
SendProofChallengeGet(t) ==
    /\ pc[t] = "spc_get"
    /\ LET session_id == local[t].session_id
           y1 == local[t].y1
           y2 == local[t].y2
       IN  IF session_id \in DOMAIN sessions
           THEN LET session == sessions[session_id]
                    proper_challenge == generate_challenge(y1, y2, session.params.q)
                IN  /\ sessions' = [sessions EXCEPT ![session_id] =
                            [session EXCEPT !.y1 = Some(y1),
                                            !.y2 = Some(y2),
                                            !.challenge = Some(proper_challenge)]]
                    /\ resp' = [op |-> "SubmitCommitment", code |-> "ok",
                                challenge |-> ToBytesBe(proper_challenge)]
           ELSE /\ resp' = NotFound("SubmitCommitment")
                /\ UNCHANGED sessions
    /\ pc' = [pc EXCEPT ![t] = "idle"]
    /\ local' = [local EXCEPT ![t] = NoLocal]
    /\ UNCHANGED first_key

(***************************************************************************)
(* server.rs: verify_proof                                                 *)
(***************************************************************************)
\* Lines 149-155: parse z, then take the lock to read the first key.
\* req.session_id is never read.
VerifyProof(t, req) ==
    /\ pc[t] = "idle"
    /\ LET key == KeysNext IN
        IF IsSome(key)
        THEN /\ local' = [local EXCEPT ![t] =
                    [kind |-> "verify_proof",
                     req |-> [session_id |-> req.session_id],
                     z |-> FromBytesBe(req.z),
                     session_id |-> Unwrap(key)]]
             /\ pc' = [pc EXCEPT ![t] = "vp_get"]
             /\ resp' = NoResp
             /\ UNCHANGED <<sessions, first_key>>
        ELSE /\ resp' = NotFound("SubmitResponse")
             /\ UNCHANGED <<sessions, first_key, pc, local>>

\* Lines 158-182: Some(verdict) when the session has y1, y2 and the challenge.
VerificationResult(map, session_id, z) ==
    IF session_id \in DOMAIN map
    THEN LET session == map[session_id] IN
         IF IsSome(session.y1) /\ IsSome(session.y2) /\ IsSome(session.challenge)
         THEN Some(verify_proof(session.params.g,
                                session.commitment.b1,
                                Unwrap(session.y1),
                                Unwrap(session.y2),
                                session.commitment.a1,
                                session.commitment.c1,
                                Unwrap(session.challenge),
                                z,
                                session.params.q))
         ELSE None
    ELSE None

\* Lines 157-200: the second lock section and the response.
VerifyProofGet(t) ==
    /\ pc[t] = "vp_get"
    /\ LET verification_result == VerificationResult(sessions, local[t].session_id, local[t].z)
       IN  resp' = IF verification_result = Some(TRUE)
                   THEN [op |-> "SubmitResponse", code |-> "ok",
                         verified |-> TRUE, message |-> "Proof verified successfully"]
                   ELSE IF verification_result = Some(FALSE)
                   THEN [op |-> "SubmitResponse", code |-> "ok",
                         verified |-> FALSE, message |-> "Proof verification failed"]
                   ELSE [op |-> "SubmitResponse",
                         code |-> "invalid_argument", message |-> "Invalid session state"]
    /\ pc' = [pc EXCEPT ![t] = "idle"]
    /\ local' = [local EXCEPT ![t] = NoLocal]
    /\ UNCHANGED <<sessions, first_key>>

(***************************************************************************)
(* The service under arbitrary callers.                                    *)
(***************************************************************************)
InitializeRequests == {[bit_size |-> b] : b \in BitSizes}
ProofChallengeRequests ==
    {[session_id |-> id, y1 |-> y1, y2 |-> y2] :
        id \in SessionIds, y1 \in InputBytes, y2 \in InputBytes}
VerifyProofRequests ==
    {[session_id |-> id, z |-> z] : id \in SessionIds, z \in InputBytes}

Init == ServerInit /\ client = NoClient

Next ==
    \/ \E t \in Threads : \E req \in InitializeRequests :
            InitializeProtocol(t, req) /\ UNCHANGED <<client, lock, judged, calc>>
    \/ \E t \in Threads : InitializeProtocolInsert(t) /\ UNCHANGED <<client, lock, judged, calc>>
    \/ \E t \in Threads : \E req \in ProofChallengeRequests :
            SendProofChallenge(t, req) /\ UNCHANGED <<client, lock, judged, calc>>
    \/ \E t \in Threads : SendProofChallengeGet(t) /\ UNCHANGED <<client, lock, judged, calc>>
    \/ \E t \in Threads : \E req \in VerifyProofRequests :
            VerifyProof(t, req) /\ UNCHANGED <<client, lock, judged, calc>>
    \/ \E t \in Threads : VerifyProofGet(t) /\ UNCHANGED <<client, lock, judged, calc>>

Spec == Init /\ [][Next]_vars

(***************************************************************************)
(* client.rs: run_protocol, one honest client against the service.         *)
(***************************************************************************)
\* Lines 33-34: the client asks for the parameters.
ClientInitialize ==
    /\ client.pc = "start"
    /\ \E t \in Threads : \E bit_size \in BitSizes :
            InitializeProtocol(t, [bit_size |-> bit_size])
    /\ client' = IF resp' = NoResp THEN [pc |-> "await_init"] ELSE [pc |-> "error"]

\* Lines 36-81: the client reads the parameters, draws its own secrets a, b
\* and x, derives commitment and challenge values and sends them.  The
\* InitializeResponse built at server.rs:97-100 carries no session id, so the
\* id the client names is whatever it holds for it.
ClientSendCommitment ==
    /\ client.pc = "await_init"
    /\ resp.op = "InitializeProtocol"
    /\ resp.code = "ok"
    /\ LET crypto_params == [p |-> FromBytesBe(resp.params.p),
                             q |-> FromBytesBe(resp.params.q),
                             g |-> FromBytesBe(resp.params.g)]
       IN  \E session_id \in SessionIds :
           \E prover \in ProverNew(crypto_params) :
           \E x \in generate_prover_secret(crypto_params.q) :
               LET commitment == ProverGenerateCommitment(prover)
                   y == compute_y1y2(x, crypto_params.g, commitment.b1, crypto_params.p)
                   req == [session_id |-> session_id,
                           commitment |-> [a1 |-> ToBytesBe(commitment.a1),
                                           b1 |-> ToBytesBe(commitment.b1),
                                           c1 |-> ToBytesBe(commitment.c1)],
                           y1 |-> ToBytesBe(y.y1),
                           y2 |-> ToBytesBe(y.y2)]
               IN  /\ \E t \in Threads : SendProofChallenge(t, req)
                   /\ client' = IF resp' = NoResp
                                THEN [pc |-> "await_challenge",
                                      session_id |-> session_id,
                                      params |-> crypto_params,
                                      secret_a |-> prover.secret_a,
                                      secret_b |-> prover.secret_b,
                                      commitment |-> commitment,
                                      x |-> x,
                                      y1 |-> y.y1,
                                      y2 |-> y.y2]
                                ELSE [pc |-> "error"]

\* Lines 81-97: the client reads the challenge, computes z and sends it.
ClientSendResponse ==
    /\ client.pc = "await_challenge"
    /\ resp.op = "SubmitCommitment"
    /\ IF resp.code = "ok"
       THEN LET challenge == FromBytesBe(resp.challenge)
                z == compute_z(client.x, client.secret_a, challenge, client.params.q)
            IN  /\ \E t \in Threads :
                       VerifyProof(t, [session_id |-> client.session_id, z |-> ToBytesBe(z)])
                /\ client' = IF resp' = NoResp
                             THEN [pc |-> "await_verify",
                                   session_id |-> client.session_id,
                                   params |-> client.params,
                                   secret_a |-> client.secret_a,
                                   secret_b |-> client.secret_b,
                                   commitment |-> client.commitment,
                                   x |-> client.x,
                                   y1 |-> client.y1,
                                   y2 |-> client.y2,
                                   challenge |-> challenge,
                                   z |-> z]
                             ELSE [pc |-> "error"]
       ELSE /\ client' = [pc |-> "error"]
            /\ UNCHANGED <<sessions, first_key, pc, local, resp>>

\* Lines 97-107: the client reads the verdict.
ClientFinish ==
    /\ client.pc = "await_verify"
    /\ resp.op = "SubmitResponse"
    /\ client' = IF resp.code = "ok"
                 THEN [pc |-> "done",
                       session_id |-> client.session_id,
                       params |-> client.params,
                       secret_a |-> client.secret_a,
                       secret_b |-> client.secret_b,
                       commitment |-> client.commitment,
                       x |-> client.x,
                       y1 |-> client.y1,
                       y2 |-> client.y2,
                       challenge |-> client.challenge,
                       z |-> client.z,
                       verified |-> resp.verified]
                 ELSE [pc |-> "error"]
    /\ UNCHANGED <<sessions, first_key, pc, local, resp>>

InitHonest == ServerInit /\ client = [pc |-> "start"]

NextHonest ==
    \/ ClientInitialize /\ UNCHANGED <<lock, judged, calc>>
    \/ ClientSendCommitment /\ UNCHANGED <<lock, judged, calc>>
    \/ ClientSendResponse /\ UNCHANGED <<lock, judged, calc>>
    \/ ClientFinish /\ UNCHANGED <<lock, judged, calc>>
    \/ \E t \in Threads : InitializeProtocolInsert(t) /\ UNCHANGED <<client, lock, judged, calc>>
    \/ \E t \in Threads : SendProofChallengeGet(t) /\ UNCHANGED <<client, lock, judged, calc>>
    \/ \E t \in Threads : VerifyProofGet(t) /\ UNCHANGED <<client, lock, judged, calc>>

SpecHonest == InitHonest /\ [][NextHonest]_vars

(***************************************************************************)
(* The handlers on concurrent workers with the mutex in view: the lock()   *)
(* that opens the second section of a handler is a step of its own, so the *)
(* states in which a handler holds the lock, or waits for it, are visible. *)
(***************************************************************************)
Handlers == 1..(NumThreads + 1)

HandlerInitializeRequests == {[bit_size |-> MinBitSize]}
HandlerChallengeRequests ==
    {[session_id |-> id, y1 |-> <<MaxByte>>, y2 |-> <<MaxByte>>] : id \in SessionIds}
HandlerVerifyRequests ==
    {[session_id |-> id, z |-> z] : id \in SessionIds, z \in {<<>>, <<MaxByte>>}}

InitHandlers ==
    /\ sessions = <<>>
    /\ first_key = None
    /\ pc = [t \in Handlers |-> "idle"]
    /\ local = [t \in Handlers |-> NoLocal]
    /\ resp = NoResp
    /\ lock = None
    /\ judged = {}
    /\ calc = NoCalc
    /\ client = NoClient

HandlerInitializeProtocolEarlyLock(t, req) ==
    /\ lock = None
    /\ InitializeProtocol(t, req)
    /\ lock' = IF pc'[t] = "ip_insert" THEN Some(t) ELSE None
    /\ UNCHANGED <<client, judged, calc>>

\* server.rs:56-78: no lock() among these lines.
HandlerInitializeProtocol(t, req) ==
    /\ InitializeProtocol(t, req)
    /\ UNCHANGED <<client, lock, judged, calc>>

\* self.sessions.lock().unwrap() at server.rs:81, 124 and 159: the handler
\* waits until the mutex is free and takes it.
HandlerLock(t) ==
    /\ pc[t] \in {"ip_insert", "spc_get", "vp_get"}
    /\ lock = None
    /\ lock' = Some(t)
    /\ UNCHANGED <<sessions, first_key, pc, local, resp, client, judged, calc>>

\* server.rs:82-83: the insertion, and the guard dropped at the end of the
\* block.  The id now names a new session, on which no verdict was given.
HandlerInitializeProtocolInsert(t) ==
    /\ lock = Some(t)
    /\ InitializeProtocolInsert(t)
    /\ lock' = None
    /\ judged' = judged \ {local[t].session_id}
    /\ UNCHANGED <<client, calc>>

\* server.rs:117-120: the lock taken, the first key read and the lock
\* released, all in one statement.
HandlerSendProofChallenge(t, req) ==
    /\ lock = None
    /\ SendProofChallenge(t, req)
    /\ UNCHANGED <<client, lock, judged, calc>>

\* server.rs:125-142, the guard dropped at the end of the block.
HandlerSendProofChallengeGet(t) ==
    /\ lock = Some(t)
    /\ SendProofChallengeGet(t)
    /\ lock' = None
    /\ UNCHANGED <<client, judged, calc>>

\* server.rs:152-155.
HandlerVerifyProof(t, req) ==
    /\ lock = None
    /\ VerifyProof(t, req)
    /\ UNCHANGED <<client, lock, judged, calc>>

\* server.rs:160-200, the guard dropped at line 182.  judged records the
\* session when the request named it and got a verdict computed from it.
HandlerVerifyProofGet(t) ==
    /\ lock = Some(t)
    /\ VerifyProofGet(t)
    /\ lock' = None
    /\ judged' = IF resp'.code = "ok" /\ local[t].req.session_id = local[t].session_id
                 THEN judged \cup {local[t].session_id}
                 ELSE judged
    /\ UNCHANGED <<client, calc>>

NextHandlers ==
    \/ \E t \in Handlers : \E req \in HandlerInitializeRequests :
            HandlerInitializeProtocol(t, req)
    \/ \E t \in Handlers : HandlerLock(t)
    \/ \E t \in Handlers : HandlerInitializeProtocolInsert(t)
    \/ \E t \in Handlers : \E req \in HandlerChallengeRequests :
            HandlerSendProofChallenge(t, req)
    \/ \E t \in Handlers : HandlerSendProofChallengeGet(t)
    \/ \E t \in Handlers : \E req \in HandlerVerifyRequests :
            HandlerVerifyProof(t, req)
    \/ \E t \in Handlers : HandlerVerifyProofGet(t)

SpecHandlers == InitHandlers /\ [][NextHandlers]_vars

(***************************************************************************)
(* initialize_protocol with the two search loops of generate_params in     *)
(* view: every pass of a loop is a step that draws one candidate.          *)
(***************************************************************************)
\* server.rs:56-63: the range check and the entry into
\* generate_safe_prime_pair.
InitializeProtocolValidate(t, req) ==
    /\ pc[t] = "idle"
    /\ IF ~ValidBitSize(req.bit_size)
       THEN /\ resp' = [op |-> "InitializeProtocol",
                        code |-> "invalid_argument",
                        message |-> "Bit size must be between 256 and 4096"]
            /\ UNCHANGED <<sessions, first_key, pc, local>>
       ELSE /\ pc' = [pc EXCEPT ![t] = "ip_search"]
            /\ local' = [local EXCEPT ![t] = [kind |-> "initialize_protocol"]]
            /\ resp' = NoResp
            /\ UNCHANGED <<sessions, first_key>>
    /\ UNCHANGED <<client, lock, judged, calc>>

GenerateSafePrimePairIterationEvenQ(t, p) ==
    /\ pc[t] = "ip_search"
    /\ p \in PrimeCandidates(PrimeBits)
    /\ \E p_prime \in IsProbablyPrimeOutcomes(p, MillerRabinRounds) :
       \E q_prime \in IsProbablyPrimeOutcomes(2 * p, MillerRabinRounds) :
            IF p_prime /\ q_prime
            THEN /\ pc' = [pc EXCEPT ![t] = "ip_generator"]
                 /\ local' = [local EXCEPT ![t] =
                        [kind |-> "initialize_protocol", p |-> p, q |-> 2 * p]]
            ELSE UNCHANGED <<pc, local>>
    /\ UNCHANGED <<sessions, first_key, resp, client, lock, judged, calc>>

\* One pass of the loop of generate_safe_prime_pair (crypto.rs:15-27) with
\* candidate p: the function returns (p, 2p + 1) when both pass the test
\* and draws again otherwise.
GenerateSafePrimePairIteration(t, p) ==
    /\ pc[t] = "ip_search"
    /\ p \in PrimeCandidates(PrimeBits)
    /\ \E p_prime \in IsProbablyPrimeOutcomes(p, MillerRabinRounds) :
       \E q_prime \in IsProbablyPrimeOutcomes(2 * p + 1, MillerRabinRounds) :
            IF p_prime /\ q_prime
            THEN /\ pc' = [pc EXCEPT ![t] = "ip_generator"]
                 /\ local' = [local EXCEPT ![t] =
                        [kind |-> "initialize_protocol", p |-> p, q |-> 2 * p + 1]]
            ELSE UNCHANGED <<pc, local>>
    /\ UNCHANGED <<sessions, first_key, resp, client, lock, judged, calc>>

\* One pass of the loop of find_generator (crypto.rs:48-57) with candidate
\* g: the function returns g when g^p and g^2 differ from 1 modulo q and
\* draws again otherwise.  On return the handler builds its prover, the
\* commitment, the session id and the session (server.rs:63-78).
FindGeneratorIteration(t, g) ==
    /\ pc[t] = "ip_generator"
    /\ g \in GenBiguintRange(2, local[t].q - 1)
    /\ LET p == local[t].p
           q == local[t].q
           gp == ModPow(g, p, q)
           g2 == ModPow(g, 2, q)
       IN  IF gp # 1 /\ g2 # 1
           THEN /\ pc' = [pc EXCEPT ![t] = "ip_insert"]
                /\ LET params == [p |-> p, q |-> q, g |-> g] IN
                   \E commitment \in {ProverGenerateCommitment(prover) :
                                            prover \in ProverNew(params)} :
                   \E session_id \in SessionIds :
                        local' = [local EXCEPT ![t] =
                            [kind |-> "initialize_protocol",
                             params |-> params,
                             commitment |-> commitment,
                             session_id |-> session_id,
                             session |-> NewSession(params, commitment)]]
           ELSE UNCHANGED <<pc, local>>
    /\ UNCHANGED <<sessions, first_key, resp, client, lock, judged, calc>>

\* Every value find_generator can draw, over the pairs the first loop can
\* return.
GeneratorCandidates ==
    UNION {GenBiguintRange(2, pq[2] - 1) : pq \in generate_safe_prime_pair(PrimeBits)}

NextSearch ==
    \/ \E t \in Threads : \E req \in InitializeRequests :
            InitializeProtocolValidate(t, req)
    \/ \E t \in Threads : \E p \in PrimeCandidates(PrimeBits) :
            GenerateSafePrimePairIteration(t, p)
    \/ \E t \in Threads : \E g \in GeneratorCandidates :
            FindGeneratorIteration(t, g)
    \/ \E t \in Threads : HandlerLock(t)
    \/ \E t \in Threads : HandlerInitializeProtocolInsert(t)

\* The random source eventually draws every candidate: a pass with a given
\* candidate that can be made for ever is made.  The mutex is granted to a
\* handler that waits for it and the handler runs on.
FairSearch ==
    \A t \in Threads :
        /\ \A p \in PrimeCandidates(PrimeBits) :
                WF_vars(GenerateSafePrimePairIteration(t, p))
        /\ \A g \in GeneratorCandidates :
                WF_vars(FindGeneratorIteration(t, g))
        /\ WF_vars(HandlerLock(t))
        /\ WF_vars(HandlerInitializeProtocolInsert(t))

SpecSearch == Init /\ [][NextSearch]_vars /\ FairSearch

(***************************************************************************)
(* initialize_protocol with the whole scope of the handler in view.        *)
(***************************************************************************)
NextScope ==
    \/ \E t \in Threads : \E req \in InitializeRequests :
            InitializeProtocolLocals(t, req) /\ UNCHANGED <<client, lock, judged, calc>>
    \/ \E t \in Threads : InitializeProtocolInsert(t) /\ UNCHANGED <<client, lock, judged, calc>>

SpecScope == Init /\ [][NextScope]_vars

(***************************************************************************)
(* The library of chaum_pedersen/ called on its own: one call of a         *)
(* function on inputs drawn from bounded sets, the result kept in calc.    *)
(***************************************************************************)
CalcBits == 4

service_vars == <<sessions, first_key, pc, local, resp, client, lock, judged>>

\* The parameters PublicParameters::new(CalcBits) can return.
CalcParameters == generate_params(CalcBits)

\* Prover::new(params).create_proof() on fresh parameters.
CallCreateProof ==
    /\ calc = NoCalc
    /\ \E params \in CalcParameters :
       \E prover \in ProverNew(params) :
       \E proof \in ProverCreateProof(prover) :
            calc' = [fn |-> "create_proof", prover |-> prover, proof |-> proof]
    /\ UNCHANGED service_vars

\* Verifier::new(params).verify_proof(&proof) on the proof just created.
CallVerifyProof ==
    /\ calc.fn = "create_proof"
    /\ calc' = [fn |-> "verify_proof",
                prover |-> calc.prover,
                proof |-> calc.proof,
                accepted |-> VerifierVerifyProof(VerifierNew(calc.prover.params),
                                                 calc.proof)]
    /\ UNCHANGED service_vars

\* Verifier::new(params).verify_proof(&forged) on the proof just created with
\* its response z replaced by (z + 1) mod q.
CallVerifyForged ==
    /\ calc.fn = "create_proof"
    /\ LET z == (calc.proof.response.z + 1) % calc.prover.params.q
           forged == [calc.proof EXCEPT !.response = [z |-> z]]
       IN  calc' = [fn |-> "verify_forged",
                    prover |-> calc.prover,
                    proof |-> calc.proof,
                    accepted |-> VerifierVerifyProof(VerifierNew(calc.prover.params),
                                                     forged)]
    /\ UNCHANGED service_vars

\* generate_params(CalcBits), the triple stored as PublicParameters {p, q, g}.
CallGenerateParams ==
    /\ calc = NoCalc
    /\ \E params \in CalcParameters :
            calc' = [fn |-> "generate_params", params |-> params]
    /\ UNCHANGED service_vars

\* compute_z(x, a, s, q) with q the params.q its callers pass, x and a in
\* [1, q - 1] and s in [0, q - 1].
CallComputeZ ==
    /\ calc = NoCalc
    /\ \E q \in {params.q : params \in CalcParameters} :
       \E x \in 1..(q - 1) : \E a \in 1..(q - 1) : \E s \in 0..(q - 1) :
            calc' = [fn |-> "compute_z", x |-> x, a |-> a, s |-> s, q |-> q,
                     z |-> compute_z(x, a, s, q)]
    /\ UNCHANGED service_vars

\* The bytes the two hasher.update calls of generate_challenge feed to the
\* hash: to_bytes_be of y1, then to_bytes_be of y2.
HashInput(y1, y2) == ToBytesBe(y1) \o ToBytesBe(y2)

\* Values of y1 and y2 whose encodings take one or two bytes.
HashedValues == {hi * ByteBase + lo : hi \in 0..MaxByte, lo \in 0..MaxByte}

\* generate_challenge(y1, y2, q) on a first pair.
CallGenerateChallenge ==
    /\ calc = NoCalc
    /\ \E q \in {params.q : params \in CalcParameters} :
       \E y1 \in HashedValues : \E y2 \in HashedValues :
            calc' = [fn |-> "generate_challenge",
                     q |-> q,
                     first |-> [y1 |-> y1, y2 |-> y2,
                                input |-> HashInput(y1, y2),
                                challenge |-> generate_challenge(y1, y2, q)]]
    /\ UNCHANGED service_vars

\* generate_challenge(y1, y2, q) on a second pair, with the same q.
CallGenerateChallengeAgain ==
    /\ calc.fn = "generate_challenge"
    /\ \E y1 \in HashedValues : \E y2 \in HashedValues :
            calc' = [fn |-> "generate_challenge_again",
                     q |-> calc.q,
                     first |-> calc.first,
                     second |-> [y1 |-> y1, y2 |-> y2,
                                 input |-> HashInput(y1, y2),
                                 challenge |-> generate_challenge(y1, y2, calc.q)]]
    /\ UNCHANGED service_vars

MaxTested == 40

\* is_probably_prime(n, 40): the early returns of lines 62-70, or the entry
\* into the witness loop with no round done yet.
CallIsProbablyPrime ==
    /\ calc = NoCalc
    /\ \E n \in 0..MaxTested :
            calc' = [fn |-> "is_probably_prime",
                     n |-> n,
                     round |-> 0,
                     result |-> IF n < 2 THEN Some(FALSE)
                                ELSE IF n = 2 \/ n = 3 THEN Some(TRUE)
                                ELSE IF n % 2 = 0 THEN Some(FALSE)
                                ELSE None]
    /\ UNCHANGED service_vars

\* One pass of the witness loop of lines 82-97 with a fresh witness a: the
\* function returns false when the round fails, true after the last round.
WitnessRound ==
    /\ calc.fn = "is_probably_prime"
    /\ calc.result = None
    /\ \E a \in GenBiguintRange(2, calc.n - 1) :
            calc' = IF ~WitnessPasses(calc.n, a)
                    THEN [calc EXCEPT !.result = Some(FALSE)]
                    ELSE IF calc.round + 1 = MillerRabinRounds
                    THEN [calc EXCEPT !.round = @ + 1, !.result = Some(TRUE)]
                    ELSE [calc EXCEPT !.round = @ + 1]
    /\ UNCHANGED service_vars

NextLibrary ==
    \/ CallIsProbablyPrime
    \/ WitnessRound
    \/ CallGenerateParams
    \/ CallCreateProof
    \/ CallVerifyProof
    \/ CallVerifyForged
    \/ CallComputeZ
    \/ CallGenerateChallenge
    \/ CallGenerateChallengeAgain

SpecLibrary == Init /\ [][NextLibrary]_vars

(***************************************************************************)
(* Vocabulary of the properties.                                           *)
(***************************************************************************)
\* The states of a session as the table records them: a session is in
\* Initialized until a commitment submission has stored y1, y2 and the
\* challenge, and in CommitmentSubmitted from then on.
Initialized(session) ==
    session.y1 = None /\ session.y2 = None /\ session.challenge = None
CommitmentSubmitted(session) ==
    IsSome(session.y1) /\ IsSome(session.y2) /\ IsSome(session.challenge)

\* This step returns, on handler t, the response to a SubmitCommitment whose
\* caller named session id.
SubmitCommitmentReturns(t, id) ==
    \/ /\ pc[t] = "spc_get"
       /\ local[t].req.session_id = id
       /\ SendProofChallengeGet(t)
    \/ \E req \in ProofChallengeRequests :
        /\ req.session_id = id
        /\ SendProofChallenge(t, req)
        /\ resp' # NoResp

\* This step returns, on handler t, the response to a SubmitResponse whose
\* caller named session id.
SubmitResponseReturns(t, id) ==
    \/ /\ pc[t] = "vp_get"
       /\ local[t].req.session_id = id
       /\ VerifyProofGet(t)
    \/ \E req \in VerifyProofRequests :
        /\ req.session_id = id
        /\ VerifyProof(t, req)
        /\ resp' # NoResp

IsVerdict(r) == r.op = "SubmitResponse" /\ r.code = "ok"
IsNotFound(r) == r.code = "not_found"
\* The invalid-state error as the service words it.
IsInvalidState(r) == r.code = "invalid_argument" /\ r.message = "Invalid session state"

(***************************************************************************)
(* C1. Session lookup is strictly keyed by the caller-supplied session id: *)
(* with two or more sessions in the table, a SubmitCommitment or           *)
(* SubmitResponse naming session id works on the entry stored under id and *)
(* changes no other entry.                                                 *)
(***************************************************************************)
C1_StrictlyKeyed ==
    [][\A t \in Threads : \A id \in SessionIds :
        /\ Cardinality(DOMAIN sessions) >= 2
        /\ SubmitCommitmentReturns(t, id) \/ SubmitResponseReturns(t, id)
        /\ pc[t] # "idle"
        => /\ local[t].session_id = id
           /\ \A other \in DOMAIN sessions \ {id} : sessions'[other] = sessions[other]
      ]_vars

(***************************************************************************)
(* C2. Honest end-to-end run: a client that derives commitment, challenge  *)
(* values and response from its own secrets and the returned parameters,   *)
(* and names a session of the table, receives verified = true.             *)
(***************************************************************************)
C2_HonestRunVerified ==
    client.pc = "done" /\ client.session_id \in DOMAIN sessions => client.verified

(***************************************************************************)
(* C3. Initialized -> CommitmentSubmitted -> verdict, no state skipped: a  *)
(* verdict is produced only for a named session that has accepted a        *)
(* commitment, a SubmitCommitment for a session that is not in Initialized *)
(* and a SubmitResponse for one that is not in CommitmentSubmitted yield   *)
(* not-found or invalid-state.                                             *)
(***************************************************************************)
C3_LockstepOrder ==
    [][\A t \in Threads : \A id \in SessionIds :
        /\ SubmitResponseReturns(t, id) =>
              IF id \in DOMAIN sessions /\ CommitmentSubmitted(sessions[id])
              THEN TRUE
              ELSE IsNotFound(resp') \/ IsInvalidState(resp')
        /\ SubmitCommitmentReturns(t, id) =>
              IF id \in DOMAIN sessions /\ Initialized(sessions[id])
              THEN TRUE
              ELSE IsNotFound(resp') \/ IsInvalidState(resp')
      ]_vars

(***************************************************************************)
(* C4. The commitment SubmitResponse verifies against is the one the       *)
(* caller submitted: once the client's SubmitCommitment is accepted the    *)
(* session holds the client's commitment, and the verdict is verify_proof  *)
(* over that commitment and the stored parameters, challenge values and s. *)
(***************************************************************************)
C4_VerifiesSubmittedCommitment ==
    client.pc \in {"await_verify", "done"} =>
        \A k \in DOMAIN sessions :
            /\ sessions[k].commitment = client.commitment
            /\ client.pc = "done" =>
                 client.verified = verify_proof(sessions[k].params.g,
                                                client.commitment.b1,
                                                Unwrap(sessions[k].y1),
                                                Unwrap(sessions[k].y2),
                                                client.commitment.a1,
                                                client.commitment.c1,
                                                Unwrap(sessions[k].challenge),
                                                client.z,
                                                sessions[k].params.q)

(***************************************************************************)
(* C5. An accepted SubmitCommitment naming session id returns              *)
(* s = generate_challenge(y1, y2, q) for the submitted y1, y2 and the q of *)
(* session id, and stores that s and y1, y2 in session id.                 *)
(***************************************************************************)
C5_ChallengeFromOwnQ ==
    [][\A t \in Threads : \A id \in SessionIds :
        SubmitCommitmentReturns(t, id) /\ resp'.code = "ok" =>
            /\ id \in DOMAIN sessions
            /\ LET s == generate_challenge(local[t].y1, local[t].y2, sessions[id].params.q)
               IN  /\ resp'.challenge = ToBytesBe(s)
                   /\ sessions'[id].challenge = Some(s)
                   /\ sessions'[id].y1 = Some(local[t].y1)
                   /\ sessions'[id].y2 = Some(local[t].y2)
      ]_vars

(***************************************************************************)
(* C6. InitializeProtocol with bit_size outside [256, 4096] returns        *)
(* invalid-argument and changes nothing (the table and every handler's     *)
(* position and locals stay as they were, so no generation starts and no   *)
(* session id is drawn); with bit_size inside the range the handler goes   *)
(* on to generate and insert and its response is never invalid-argument.   *)
(***************************************************************************)
C6_BitSizeValidated ==
    [][\A t \in Threads :
        /\ \A req \in InitializeRequests :
              InitializeProtocol(t, req) =>
                  IF req.bit_size < MinBitSize \/ req.bit_size > MaxBitSize
                  THEN /\ resp'.op = "InitializeProtocol"
                       /\ resp'.code = "invalid_argument"
                       /\ UNCHANGED <<sessions, first_key, pc, local>>
                  ELSE /\ resp' = NoResp
                       /\ pc'[t] = "ip_insert"
                       /\ local'[t].session_id \in SessionIds
        /\ InitializeProtocolInsert(t) =>
              resp'.op = "InitializeProtocol" /\ resp'.code = "ok"
      ]_vars

\* A request out of range has been rejected while the table holds a session.
C6_Witness ==
    /\ resp.op = "InitializeProtocol"
    /\ resp.code = "invalid_argument"
    /\ DOMAIN sessions # {}

(***************************************************************************)
(* C7. SubmitResponse naming an id that is not a key of the table returns  *)
(* not-found, whatever sessions the table holds, and changes no session.   *)
(***************************************************************************)
C7_UnknownSessionNotFound ==
    [][\A t \in Threads : \A id \in SessionIds :
        SubmitResponseReturns(t, id) /\ id \notin DOMAIN sessions =>
            IsNotFound(resp') /\ sessions' = sessions
      ]_vars

(***************************************************************************)
(* C8. SubmitResponse naming a session that is still in Initialized        *)
(* returns invalid-state, no verdict, and leaves the session as it was.    *)
(***************************************************************************)
C8_InitializedInvalidState ==
    [][\A t \in Threads : \A id \in SessionIds :
        /\ SubmitResponseReturns(t, id)
        /\ id \in DOMAIN sessions
        /\ Initialized(sessions[id])
        => /\ IsInvalidState(resp')
           /\ ~IsVerdict(resp')
           /\ sessions' = sessions
      ]_vars

(***************************************************************************)
(* C9. SubmitCommitment naming an absent session, or a session that has    *)
(* already accepted a commitment, returns not-found and leaves y1, y2 and  *)
(* the challenge of every session unchanged.                               *)
(***************************************************************************)
C9_CommitmentOnlyWhenInitialized ==
    [][\A t \in Threads : \A id \in SessionIds :
        /\ SubmitCommitmentReturns(t, id)
        /\ id \notin DOMAIN sessions \/ ~Initialized(sessions[id])
        => /\ IsNotFound(resp')
           /\ DOMAIN sessions' = DOMAIN sessions
           /\ \A k \in DOMAIN sessions :
                /\ sessions'[k].y1 = sessions[k].y1
                /\ sessions'[k].y2 = sessions[k].y2
                /\ sessions'[k].challenge = sessions[k].challenge
      ]_vars

(***************************************************************************)
(* C10. After SubmitResponse returns verified = true for a session, the    *)
(* session's entry is gone from the table; after verified = false it is    *)
(* still there.                                                            *)
(***************************************************************************)
C10_PurgedOnSuccess ==
    [][\A t \in Threads : \A id \in SessionIds :
        /\ SubmitResponseReturns(t, id)
        /\ IsVerdict(resp')
        /\ local[t].session_id = id
        => IF resp'.verified
           THEN id \notin DOMAIN sessions'
           ELSE id \in DOMAIN sessions'
      ]_vars

(***************************************************************************)
(* C11. Every successful InitializeProtocol inserts its session under a    *)
(* session id that is not yet a key of the table: the insertion never      *)
(* replaces an existing session and the table grows by exactly one entry.  *)
(***************************************************************************)
C11_FreshSessionId ==
    [][\A t \in Threads :
        InitializeProtocolInsert(t)
        => /\ local[t].session_id \notin DOMAIN sessions
           /\ Cardinality(DOMAIN sessions') = Cardinality(DOMAIN sessions) + 1
           /\ \A k \in DOMAIN sessions : sessions'[k] = sessions[k]
      ]_vars

(***************************************************************************)
(* C12. Honest-proof round trip: for parameters the generator returns and  *)
(* secrets a, b and x drawn from their ranges, the proof that              *)
(* Prover.create_proof builds is accepted by Verifier.verify_proof.        *)
(***************************************************************************)
C12_HonestProofAccepted ==
    calc.fn = "verify_proof" => calc.accepted

(***************************************************************************)
(* C13. Forged response: for parameters the generator returns and an       *)
(* honestly computed proof, the proof with z replaced by (z + 1) mod q is  *)
(* rejected by the verifier.                                               *)
(***************************************************************************)
C13_ForgedResponseRejected ==
    calc.fn = "verify_forged" => ~calc.accepted

(***************************************************************************)
(* C14. Every triple (p, q, g) that generate_params returns and            *)
(* PublicParameters stores has p = 2q + 1 with p and q both passing the    *)
(* primality tester, g different from 1 and g^q mod p = 1.                 *)
(***************************************************************************)
C14_GeneratedParamsValid ==
    calc.fn = "generate_params" =>
        LET p == calc.params.p
            q == calc.params.q
            g == calc.params.g
        IN  /\ p = 2 * q + 1
            /\ TRUE \in IsProbablyPrimeOutcomes(p, MillerRabinRounds)
            /\ TRUE \in IsProbablyPrimeOutcomes(q, MillerRabinRounds)
            /\ g # 1
            /\ ModPow(g, q, p) = 1

\* n is a prime number.
IsPrime(n) == n >= 2 /\ \A k \in 2..(n - 1) : n % k # 0

(***************************************************************************)
(* C15. is_probably_prime returns false for every n below 2 and every even *)
(* n above 2, true for every prime n whatever witnesses its rounds draw    *)
(* (2, 3 and 5 included), and false for the composites 9, 15 and 21        *)
(* whatever witnesses its rounds draw.                                     *)
(***************************************************************************)
C15_PrimalityTester ==
    calc.fn = "is_probably_prime" /\ IsSome(calc.result) =>
        LET n == calc.n
            result == Unwrap(calc.result)
        IN  /\ n < 2 => ~result
            /\ n > 2 /\ n % 2 = 0 => ~result
            /\ IsPrime(n) => result
            /\ n \in {9, 15, 21} => ~result

\* A prime above 3 has gone through all its rounds and is reported prime.
C15_Witness ==
    /\ calc.fn = "is_probably_prime"
    /\ calc.n = 13
    /\ calc.round = MillerRabinRounds
    /\ calc.result = Some(TRUE)

(***************************************************************************)
(* C20. Response arithmetic: for all x and a in [1, q - 1] and all s in    *)
(* [0, q - 1], compute_z(x, a, s, q) equals (x + a * s) mod q.             *)
(***************************************************************************)
C20_ResponseArithmetic ==
    calc.fn = "compute_z" => calc.z = (calc.x + calc.a * calc.s) % calc.q

\* The names under which a record of the server would hold a prover's secrets.
SecretFields == {"prover", "secret_a", "secret_b", "x"}

(***************************************************************************)
(* C16. At every reachable state no session of the table holds the secrets *)
(* a, b or x, and neither does any handler of the server: the server never *)
(* generates or holds a prover's secrets, it stores only the parameters    *)
(* and the public values derived from them.                                *)
(***************************************************************************)
C16_NoSecretsOnServer ==
    /\ \A k \in DOMAIN sessions : DOMAIN sessions[k] \cap SecretFields = {}
    /\ \A t \in Threads : DOMAIN local[t] \cap SecretFields = {}

(***************************************************************************)
(* C17. A verdict is final: once SubmitResponse has produced a verdict,    *)
(* verified true or false, from a session, every later SubmitResponse for  *)
(* that session is rejected with invalid-state or not-found, so a session  *)
(* yields at most one verdict.                                             *)
(***************************************************************************)
C17_VerdictFinal ==
    [][\A t \in Handlers :
        /\ HandlerVerifyProofGet(t)
        /\ local[t].req.session_id = local[t].session_id
        /\ local[t].session_id \in judged
        => /\ resp'.code # "ok"
           /\ IsInvalidState(resp') \/ IsNotFound(resp')
      ]_vars

\* Handler u takes a step on the session table: it takes the lock, or runs
\* one of the sections that work on the table.
TableStep(u) ==
    \/ HandlerLock(u)
    \/ HandlerInitializeProtocolInsert(u)
    \/ HandlerSendProofChallengeGet(u)
    \/ HandlerVerifyProofGet(u)
    \/ \E req \in HandlerChallengeRequests : HandlerSendProofChallenge(u, req)
    \/ \E req \in HandlerVerifyRequests : HandlerVerifyProof(u, req)

(***************************************************************************)
(* C18. In SubmitCommitment and SubmitResponse the lookup of the session   *)
(* and the action on it happen under one uninterrupted hold of the lock:   *)
(* a handler that has found its session holds the lock until it has acted  *)
(* on the session, so no other handler's step on the table comes between.  *)
(***************************************************************************)
C18_LookupAndActionUnderOneHold ==
    [][\A t \in Handlers : \A u \in Handlers \ {t} :
        pc[t] \in {"spc_get", "vp_get"}
        => ~TableStep(u)
      ]_vars

(***************************************************************************)
(* C19. InitializeProtocol does not hold the lock of the session table     *)
(* while it generates the parameters: the step that generates them leaves  *)
(* the lock alone, and a handler of InitializeProtocol that holds the lock *)
(* does nothing but insert its session and release the lock, so handlers   *)
(* of other requests can take the lock while parameters are generated.     *)
(***************************************************************************)
C19_NoLockWhileGenerating ==
    [][\A t \in Handlers :
        /\ pc[t] = "idle" /\ pc'[t] = "ip_insert"
           => lock # Some(t) /\ lock' = lock
        /\ pc[t] = "ip_insert" /\ lock = Some(t) /\ pc'[t] # pc[t]
           => /\ lock' = None
              /\ local[t].session_id \in DOMAIN sessions'
      ]_vars

\* A handler of InitializeProtocol has its parameters and waits for the
\* lock, which the handler of another request holds.
C19_Witness ==
    \E t \in Handlers : \E u \in Handlers :
        /\ pc[t] = "ip_insert"
        /\ pc[u] \in {"spc_get", "vp_get"}
        /\ lock = Some(u)

(***************************************************************************)
(* C22. The byte string generate_challenge feeds to the hash determines    *)
(* the pair (y1, y2): two different pairs never give the same hash input   *)
(* be(y1) || be(y2).                                                       *)
(***************************************************************************)
C22_HashInputDeterminesPair ==
    calc.fn = "generate_challenge_again" =>
        (<<calc.first.y1, calc.first.y2>> # <<calc.second.y1, calc.second.y2>>
            => calc.first.input # calc.second.input)

(***************************************************************************)
(* C21. The prime search always eventually succeeds: when the random       *)
(* source eventually draws every candidate, generate_safe_prime_pair and   *)
(* find_generator terminate, and every InitializeProtocol with a valid     *)
(* bit size eventually inserts its session and returns it; no step of the  *)
(* search answers with an error.                                           *)
(***************************************************************************)
C21_SearchTerminates ==
    \A t \in Threads :
        /\ (pc[t] = "ip_search")
              ~> (/\ pc[t] = "idle"
                  /\ resp.op = "InitializeProtocol"
                  /\ resp.code = "ok"
                  /\ sessions # <<>>)
        /\ [](pc[t] \in {"ip_search", "ip_generator", "ip_insert"} => resp = NoResp)

\* A search has ended: the handler has inserted the session it generated
\* the parameters for and has answered.
C21_Witness ==
    /\ \A t \in Threads : pc[t] = "idle"
    /\ resp.op = "InitializeProtocol"
    /\ resp.code = "ok"
    /\ Cardinality(DOMAIN sessions) = NumIds
====
